---- MODULE Spec2Model ----
(***************************************************************************)
(* A model of suiup's cache manager (src/handlers/cleanup.rs), its         *)
(* configuration store (src/handlers/config.rs, src/validation.rs) and the *)
(* install dispatcher (src/component/install.rs).                          *)
(*                                                                         *)
(* One action is one call of a public operation, run to completion: the    *)
(* tool is single-threaded and every command is one such call.  Time is    *)
(* read once per call (Now): the clock does not advance while a sweep      *)
(* traverses the cache.  Filesystem calls fail only where the state of the *)
(* cache makes them fail (a modified time in the future makes              *)
(* duration_since fail); permission and device errors are not modelled.    *)
(***************************************************************************)
EXTENDS Integers, Sequences, FiniteSets, TLC

\* ------------------------------------------------------------------ bounds

\* Largest number of entries directly under the cache root.
MaxEntries == 2

\* --------------------------------------------------------------- constants

\* 1024 * 1024: bytes per megabyte in every size comparison.
MiB == 1048576
\* 60 * 60 * 24: seconds per day in every cutoff.
DAY == 86400
\* The instant SystemTime::now() returns during a call, in seconds.
Now == 100 * DAY

\* ------------------------------------------------------------- environment

\* The directories known to exist outside the cache.
VARIABLE dirs

\* ------------------------------------------------------------------ values

\* Option<T>: None is the empty sequence, Some(v) the one-element sequence.
None == <<>>
Some(v) == <<v>>
IsSome(o) == o # <<>>
Unwrap(o) == o[1]

\* A u64 that may exceed TLC's integers, as mib * 2^20 + rem with rem < 2^20.
U64(mib, rem) == [mib |-> mib, rem |-> rem]
U64Le(a, b) == a.mib < b.mib \/ (a.mib = b.mib /\ a.rem <= b.rem)
U64Lt(a, b) == a.mib < b.mib \/ (a.mib = b.mib /\ a.rem < b.rem)
\* v / (1024 * 1024), truncating.
U64DivMiB(a) == a.mib
\* A number of bytes below 2^31 as a u64.
U64OfInt(n) == U64(n \div MiB, n % MiB)

SeqsUpTo(S, n) == UNION {[1..k -> S] : k \in 0..n}

RECURSIVE SumSeq(_)
SumSeq(s) == IF s = <<>> THEN 0 ELSE Head(s) + SumSeq(Tail(s))

\* ------------------------------------------------------- configuration doc

default_mirror_url == "https://github.com"
default_cache_days == 30
default_auto_cleanup == FALSE
default_max_cache_size == U64(1024, 0)
default_default_network == "testnet"
\* get_default_bin_dir_no_config(): the platform's default binary directory.
DefaultBinDir == "/home/user/.local/bin"
default_install_path == Some(DefaultBinDir)
default_disable_update_warnings == FALSE
default_github_token == None

\* SuiupConfig::default()
DefaultConfig ==
  [ mirror_url              |-> default_mirror_url,
    cache_days              |-> default_cache_days,
    auto_cleanup            |-> default_auto_cleanup,
    max_cache_size          |-> default_max_cache_size,
    default_network         |-> default_default_network,
    install_path            |-> default_install_path,
    disable_update_warnings |-> default_disable_update_warnings,
    github_token            |-> default_github_token ]

\* The config file: absent, present with text serde_json rejects, or present
\* holding a document.
CfgMissing == [state |-> "missing", doc |-> DefaultConfig]
CfgMalformed == [state |-> "malformed", doc |-> DefaultConfig]
CfgDoc(c) == [state |-> "ok", doc |-> c]

\* The config file between the two system calls of fs::write: created or
\* truncated, nothing written yet.
CfgEmpty == [state |-> "empty", doc |-> DefaultConfig]
\* The config file after a document was written over a longer one: the
\* text of head followed by the last bytes of the older text, len bytes
\* in all.
CfgTorn(head, len) == [state |-> "torn", doc |-> [head |-> head, len |-> len]]

\* ConfigHandler::save_config: the whole document replaces the file.
save_config(config) == CfgDoc(config)

\* A config file holding a JSON object with the fields `present`, taken from
\* values, and, when extra is set, one more key that is no field of
\* SuiupConfig.
CfgJson(present, extra, values) ==
  [state |-> "json", doc |-> [present |-> present, extra |-> extra, values |-> values]]

\* serde_json::from_str::<SuiupConfig> on such an object: a field that is
\* absent takes its serde default, a key that is no field is skipped.
Deserialize(doc) ==
  [ k \in DOMAIN DefaultConfig |->
      IF k \in doc.present THEN doc.values[k] ELSE DefaultConfig[k] ]

\* The variant that replaces a file it cannot parse by the defaults.
load_config_overwrite(file) ==
  IF file.state \in {"missing", "malformed", "empty", "torn"}
  THEN [ file |-> save_config(DefaultConfig), ok |-> TRUE, config |-> DefaultConfig,
         error |-> "" ]
  ELSE IF file.state = "json"
  THEN [file |-> file, ok |-> TRUE, config |-> Deserialize(file.doc), error |-> ""]
  ELSE [file |-> file, ok |-> TRUE, config |-> file.doc, error |-> ""]

\* ConfigHandler::load_config: the file after the call, the result and the
\* kind of the error.
load_config(file) ==
  IF file.state = "missing"
  THEN [ file |-> save_config(DefaultConfig), ok |-> TRUE, config |-> DefaultConfig,
         error |-> "" ]
  ELSE IF file.state \in {"malformed", "empty", "torn"}
  THEN [file |-> file, ok |-> FALSE, config |-> DefaultConfig, error |-> "ConfigError"]
  ELSE IF file.state = "json"
  THEN [file |-> file, ok |-> TRUE, config |-> Deserialize(file.doc), error |-> ""]
  ELSE [file |-> file, ok |-> TRUE, config |-> file.doc, error |-> ""]

\* ------------------------------------------------------------ cache policy

CacheConfig(mb, days, enabled) ==
  [max_size_mb |-> mb, max_age_days |-> days, auto_cleanup_enabled |-> enabled]

\* impl Default for CacheConfig
CacheConfigDefault == CacheConfig(1024, 30, TRUE)

\* CacheConfig::from_config().unwrap_or_else(|_| CacheConfig::default()):
\* the policy, and the config file after ConfigHandler::new() has run.
from_config_or_default(file) ==
  LET l == load_config(file) IN
  [ file   |-> l.file,
    loaded |-> l.ok,
    policy |-> IF l.ok
               THEN CacheConfig(U64DivMiB(l.config.max_cache_size),
                                l.config.cache_days, l.config.auto_cleanup)
               ELSE CacheConfigDefault ]

\* -------------------------------------------------------------- cache tree

\* An entry of a directory: a regular file, or a subdirectory with its own
\* entries in read_dir order.  path is the entry's place in the tree.
File(path, size, mtime) ==
  [kind |-> "file", path |-> path, size |-> size, mtime |-> mtime, sub |-> <<>>]
Dir(path, sub) ==
  [kind |-> "dir", path |-> path, size |-> 0, mtime |-> 0, sub |-> sub]

\* SystemTime::now().duration_since(modified_time): fails for a modified
\* time in the future.
AgeOk(f) == f.mtime <= Now
Age(f) == Now - f.mtime

\* calculate_dir_size: every regular file at every depth counts.
RECURSIVE calculate_dir_size(_)
calculate_dir_size(entries) ==
  IF entries = <<>> THEN 0
  ELSE LET e == Head(entries) IN
       (IF e.kind = "file" THEN e.size ELSE calculate_dir_size(e.sub))
       + calculate_dir_size(Tail(entries))

\* count_files
RECURSIVE count_files(_)
count_files(entries) ==
  IF entries = <<>> THEN 0
  ELSE LET e == Head(entries) IN
       (IF e.kind = "file" THEN 1 ELSE count_files(e.sub))
       + count_files(Tail(entries))

\* Every regular file of the tree, at every depth.
RECURSIVE AllFiles(_)
AllFiles(entries) ==
  IF entries = <<>> THEN {}
  ELSE LET e == Head(entries) IN
       (IF e.kind = "file" THEN {e} ELSE AllFiles(e.sub))
       \cup AllFiles(Tail(entries))

\* Every subdirectory of the tree (its path), at every depth.
RECURSIVE AllDirs(_)
AllDirs(entries) ==
  IF entries = <<>> THEN {}
  ELSE LET e == Head(entries) IN
       (IF e.kind = "dir" THEN {e.path} \cup AllDirs(e.sub) ELSE {})
       \cup AllDirs(Tail(entries))

\* The regular files directly under the root.
TopFiles(entries) == {entries[i] : i \in {j \in DOMAIN entries : entries[j].kind = "file"}}

\* fs::remove_file for every path of gone: the files leave the tree, the
\* directories stay.
RECURSIVE RemoveFiles(_, _)
RemoveFiles(entries, gone) ==
  IF entries = <<>> THEN <<>>
  ELSE LET e == Head(entries)
           rest == RemoveFiles(Tail(entries), gone)
       IN IF e.kind = "file"
          THEN (IF e.path \in gone THEN rest ELSE <<e>> \o rest)
          ELSE <<[e EXCEPT !.sub = RemoveFiles(e.sub, gone)]>> \o rest

\* ------------------------------------------------------------- smart sweep

\* struct FileEntry, as collect_files_recursively pushes it.
FileEntry(f) ==
  [path |-> f.path, size |-> f.size, modified_time |-> f.mtime, age |-> Age(f)]

\* collect_files_recursively: regular files at every depth, in read_dir
\* order; a file whose age cannot be computed is left out.
RECURSIVE collect_files_recursively(_)
collect_files_recursively(entries) ==
  IF entries = <<>> THEN <<>>
  ELSE LET e == Head(entries) IN
       (IF e.kind = "file"
        THEN (IF AgeOk(e) THEN <<FileEntry(e)>> ELSE <<>>)
        ELSE collect_files_recursively(e.sub))
       \o collect_files_recursively(Tail(entries))

\* One step of the stable sort: x goes after every element whose key is not
\* greater than its own.
RECURSIVE InsertByTime(_, _)
InsertByTime(s, x) ==
  IF s = <<>> THEN <<x>>
  ELSE IF Head(s).modified_time <= x.modified_time
       THEN <<Head(s)>> \o InsertByTime(Tail(s), x)
       ELSE <<x>> \o s

\* file_entries.sort_by_key(|entry| entry.modified_time): stable, oldest first.
RECURSIVE sort_by_key(_)
sort_by_key(s) ==
  IF s = <<>> THEN <<>>
  ELSE InsertByTime(sort_by_key(SubSeq(s, 1, Len(s) - 1)), s[Len(s)])

\* Duration::from_secs(60 * 60 * 24 * days as u64)
cutoff_duration(days) == DAY * days

\* should_remove with the age test the wrong way round.
should_remove_young(remaining_size, entry, max_size_mb, cutoff) ==
  IF remaining_size \div MiB > max_size_mb
  THEN TRUE
  ELSE entry.age < cutoff

\* should_remove without the size test.
should_remove_age_only(remaining_size, entry, max_size_mb, cutoff) ==
  entry.age > cutoff

\* should_remove with the size test on the entry instead of the total.
should_remove_entry_size(remaining_size, entry, max_size_mb, cutoff) ==
  IF entry.size \div MiB > max_size_mb
  THEN TRUE
  ELSE entry.age > cutoff

\* The loop's decision for one entry, given the bytes still counted.
should_remove(remaining_size, entry, max_size_mb, cutoff) ==
  IF remaining_size \div MiB > max_size_mb
  THEN TRUE
  ELSE entry.age > cutoff

\* The loop of smart_cleanup over the sorted entries, from the counters acc.
RECURSIVE SmartLoop(_, _, _, _)
SmartLoop(entries, acc, max_size_mb, cutoff) ==
  IF entries = <<>> THEN acc
  ELSE LET entry == Head(entries) IN
       IF should_remove(acc.remaining_size, entry, max_size_mb, cutoff)
       THEN SmartLoop(Tail(entries),
                      [ cleaned_size   |-> acc.cleaned_size + entry.size,
                        files_removed  |-> acc.files_removed + 1,
                        remaining_size |-> acc.remaining_size - entry.size,
                        gone           |-> acc.gone \cup {entry.path} ],
                      max_size_mb, cutoff)
       ELSE SmartLoop(Tail(entries), acc, max_size_mb, cutoff)

\* The filesystem an operation works on.
FsState(root, tree, file) == [root |-> root, cache |-> tree, cfg |-> file]

\* smart_cleanup(max_age_days, dry_run) on the filesystem fs.
smart_cleanup(fs, max_age_days, dry_run) ==
  LET c == from_config_or_default(fs.cfg)
      file_entries == sort_by_key(collect_files_recursively(fs.cache))
      total_size_before == SumSeq([i \in DOMAIN file_entries |-> file_entries[i].size])
      out == SmartLoop(file_entries,
                       [ cleaned_size   |-> 0,
                         files_removed  |-> 0,
                         remaining_size |-> total_size_before,
                         gone           |-> {} ],
                       c.policy.max_size_mb, cutoff_duration(max_age_days))
  IN IF ~fs.root
     THEN [ fs |-> FsState(fs.root, fs.cache, c.file), result |-> "ok",
            policy |-> c.policy, sorted |-> <<>>, gone |-> {},
            remaining_size |-> 0, cleaned_size |-> 0 ]
     ELSE [ fs |-> FsState(fs.root,
                           IF dry_run THEN fs.cache ELSE RemoveFiles(fs.cache, out.gone),
                           c.file),
            result |-> "ok",
            policy |-> c.policy, sorted |-> file_entries, gone |-> out.gone,
            remaining_size |-> out.remaining_size,
            cleaned_size |-> out.cleaned_size ]

\* --------------------------------------------------------------- age sweep

\* SweepLoop descending into subdirectories.
RECURSIVE SweepLoopDeep(_, _)
SweepLoopDeep(entries, cutoff) ==
  IF entries = <<>> THEN [gone |-> {}, err |-> FALSE]
  ELSE LET e == Head(entries)
           rest == SweepLoopDeep(Tail(entries), cutoff)
       IN IF e.kind # "file"
          THEN LET inner == SweepLoopDeep(e.sub, cutoff) IN
               [gone |-> inner.gone \cup rest.gone, err |-> inner.err \/ rest.err]
          ELSE IF ~AgeOk(e) THEN [gone |-> {}, err |-> TRUE]
          ELSE [ gone |-> (IF Age(e) > cutoff THEN {e.path} ELSE {}) \cup rest.gone,
                 err  |-> rest.err ]

\* The loop of handle_cleanup over the root's entries in read_dir order: the
\* paths it removes, and whether a `?` ended it early.
RECURSIVE SweepLoop(_, _)
SweepLoop(entries, cutoff) ==
  IF entries = <<>> THEN [gone |-> {}, err |-> FALSE]
  ELSE LET e == Head(entries) IN
       IF e.kind # "file" THEN SweepLoop(Tail(entries), cutoff)
       ELSE IF ~AgeOk(e) THEN [gone |-> {}, err |-> TRUE]
       ELSE LET rest == SweepLoop(Tail(entries), cutoff) IN
            [ gone |-> (IF Age(e) > cutoff THEN {e.path} ELSE {}) \cup rest.gone,
              err  |-> rest.err ]

\* handle_cleanup removing although dry_run is set.
handle_cleanup_no_dry(fs, all, days, dry_run) ==
  LET c == from_config_or_default(fs.cfg)
      sweep == SweepLoop(fs.cache, cutoff_duration(days))
  IN IF ~fs.root
     THEN [fs |-> FsState(fs.root, fs.cache, c.file), result |-> "ok"]
     ELSE IF all
     THEN [fs |-> FsState(TRUE, <<>>, c.file), result |-> "ok"]
     ELSE [ fs |-> FsState(fs.root, RemoveFiles(fs.cache, sweep.gone), c.file),
            result |-> IF sweep.err THEN "err" ELSE "ok" ]

\* handle_cleanup whose remove-all removes the top-level files only.
handle_cleanup_all_files(fs, all, days, dry_run) ==
  LET c == from_config_or_default(fs.cfg)
      sweep == SweepLoop(fs.cache, cutoff_duration(days))
  IN IF ~fs.root
     THEN [fs |-> FsState(fs.root, fs.cache, c.file), result |-> "ok"]
     ELSE IF all
     THEN [ fs |-> FsState(TRUE,
                           IF dry_run THEN fs.cache
                           ELSE RemoveFiles(fs.cache, {f.path : f \in TopFiles(fs.cache)}),
                           c.file),
            result |-> "ok" ]
     ELSE [ fs |-> FsState(fs.root,
                           IF dry_run THEN fs.cache ELSE RemoveFiles(fs.cache, sweep.gone),
                           c.file),
            result |-> IF sweep.err THEN "err" ELSE "ok" ]

\* handle_cleanup(all, days, dry_run) on the filesystem fs.
handle_cleanup(fs, all, days, dry_run) ==
  LET c == from_config_or_default(fs.cfg)
      sweep == SweepLoop(fs.cache, cutoff_duration(days))
  IN IF ~fs.root
     THEN [fs |-> FsState(fs.root, fs.cache, c.file), result |-> "ok"]
     ELSE IF all
     THEN [ fs |-> FsState(TRUE, IF dry_run THEN fs.cache ELSE <<>>, c.file),
            result |-> "ok" ]
     ELSE [ fs |-> FsState(fs.root,
                           IF dry_run THEN fs.cache ELSE RemoveFiles(fs.cache, sweep.gone),
                           c.file),
            result |-> IF sweep.err THEN "err" ELSE "ok" ]

\* ------------------------------------------------------------ auto cleanup

\* over_limit comparing bytes instead of whole megabytes.
over_limit_bytes(tree, policy) == calculate_dir_size(tree) > policy.max_size_mb * MiB

\* get_cache_stats().total_size_bytes / (1024 * 1024) > config.max_size_mb
over_limit(tree, policy) == calculate_dir_size(tree) \div MiB > policy.max_size_mb

\* auto_cleanup_cache(config) on the filesystem fs; ran tells whether it
\* called handle_cleanup.
auto_cleanup_cache(fs, policy) ==
  IF ~policy.auto_cleanup_enabled
  THEN [fs |-> fs, result |-> "ok", ran |-> FALSE]
  ELSE IF over_limit(fs.cache, policy)
  THEN LET h == handle_cleanup(fs, FALSE, policy.max_age_days, FALSE) IN
       [fs |-> h.fs, result |-> h.result, ran |-> TRUE]
  ELSE [fs |-> fs, result |-> "ok", ran |-> FALSE]

\* --------------------------------------------------------- cleanup command

\* The variant in which the smart flag is looked at before the stats flag.
handle_cleanup_advanced_smart_first(fs, all, days, dry_run, stats, smart) ==
  LET s == smart_cleanup(fs, days, dry_run)
      h == handle_cleanup(fs, all, days, dry_run)
  IN IF smart
     THEN [fs |-> s.fs, result |-> s.result, ran |-> "smart_cleanup"]
     ELSE IF stats
     THEN [ fs |-> FsState(fs.root, fs.cache, from_config_or_default(fs.cfg).file),
            result |-> "ok", ran |-> "get_cache_stats" ]
     ELSE [fs |-> h.fs, result |-> h.result, ran |-> "handle_cleanup"]

\* handle_cleanup_advanced(all, days, dry_run, stats, smart) on the
\* filesystem fs; ran names the function it handed the work to.  The stats
\* branch reads the cache and the policy and prints.
handle_cleanup_advanced(fs, all, days, dry_run, stats, smart) ==
  LET s == smart_cleanup(fs, days, dry_run)
      h == handle_cleanup(fs, all, days, dry_run)
  IN IF stats
     THEN [ fs |-> FsState(fs.root, fs.cache, from_config_or_default(fs.cfg).file),
            result |-> "ok", ran |-> "get_cache_stats" ]
     ELSE IF smart
     THEN [fs |-> s.fs, result |-> s.result, ran |-> "smart_cleanup"]
     ELSE [fs |-> h.fs, result |-> h.result, ran |-> "handle_cleanup"]

\* ------------------------------------------------------ configuration store

\* enum ConfigValue
StringValue(x) == [kind |-> "String", s |-> x, n |-> U64(0, 0), b |-> FALSE]
NumberValue(x) == [kind |-> "Number", s |-> "", n |-> x, b |-> FALSE]
BooleanValue(x) == [kind |-> "Boolean", s |-> "", n |-> U64(0, 0), b |-> x]

\* The keys ConfigHandler knows.
ConfigKeys ==
  { "mirror_url", "cache_days", "auto_cleanup", "max_cache_size", "default_network",
    "install_path", "disable_update_warnings", "github_token" }

\* The variant each key's field is assigned from.
KindOf(key) ==
  IF key \in {"mirror_url", "default_network", "install_path", "github_token"}
  THEN "String"
  ELSE IF key \in {"cache_days", "max_cache_size"} THEN "Number"
  ELSE "Boolean"

\* url::Url::parse on the strings the model uses: whether it parses, the
\* scheme and whether a host is present.
UrlParse(url) ==
  IF url = "https://github.com" \/ url = "https://mirror.example.com"
  THEN [ok |-> TRUE, scheme |-> "https", host |-> TRUE]
  ELSE IF url = "ftp://mirror.example.com"
  THEN [ok |-> TRUE, scheme |-> "ftp", host |-> TRUE]
  ELSE [ok |-> FALSE, scheme |-> "", host |-> FALSE]

\* Validator::validate_url
validate_url(url) ==
  LET u == UrlParse(url) IN
  IF u.ok /\ u.scheme \in {"http", "https"} /\ u.host THEN "ok" ELSE "err"

\* Validator::validate_network
validate_network(network) ==
  IF network \in {"testnet", "devnet", "mainnet"} THEN "ok" ELSE "err"

\* The variant that checks the lower bound only.
validate_number_range_min_only(value, min, max) ==
  IF U64Lt(value, min) THEN "err" ELSE "ok"

\* Validator::validate_number_range
validate_number_range(value, min, max) ==
  IF U64Lt(value, min) \/ U64Lt(max, value) THEN "err" ELSE "ok"

\* Validator::validate_cache_size: 100 MB to 100 GB.
validate_cache_size(size_bytes) ==
  validate_number_range(size_bytes, U64(100, 0), U64(100 * 1024, 0))

\* Validator::validate_cache_days, on a u32.
validate_cache_days(days) ==
  validate_number_range(U64OfInt(days), U64(0, 1), U64(0, 365))

\* `v as u32` on a u64: the low 32 bits.
AsU32(v) == (v.mib % 4096) * MiB + v.rem

\* The parent of the platform's default binary directory.
HomeLocal == "/home/user/.local"

\* The paths whose parent directory exists, and those whose parent also
\* takes the probe file.  The parent of the default binary directory
\* exists once it, or the directory itself, has been created.
ParentExists ==
  {"/opt/suiup/bin", "/readonly/bin"}
  \cup (IF HomeLocal \in dirs \/ DefaultBinDir \in dirs THEN {DefaultBinDir} ELSE {})
ParentWritable == {DefaultBinDir, "/opt/suiup/bin"}

\* Validator::validate_path_writable; the probe file is removed again.
validate_path_writable(path) ==
  IF path \in ParentExists /\ path \in ParentWritable THEN "ok" ELSE "err"

\* token.starts_with(prefix) for one of the five prefixes.
HasTokenPrefix(token) ==
  /\ Len(token) >= 4
  /\ SubSeq(token, 1, 4) \in {"ghp_", "gho_", "ghu_", "ghs_", "ghr_"}

\* ConfigHandler::validate_config_value
validate_config_value(key, value) ==
  IF key = "mirror_url"
  THEN (IF value.kind = "String" THEN validate_url(value.s) ELSE "ok")
  ELSE IF key = "cache_days"
  THEN (IF value.kind = "Number" THEN validate_cache_days(AsU32(value.n)) ELSE "ok")
  ELSE IF key = "max_cache_size"
  THEN (IF value.kind = "Number" THEN validate_cache_size(value.n) ELSE "ok")
  ELSE IF key = "default_network"
  THEN (IF value.kind = "String" THEN validate_network(value.s) ELSE "ok")
  ELSE IF key = "install_path"
  THEN (IF value.kind = "String" /\ value.s # "default"
        THEN validate_path_writable(value.s) ELSE "ok")
  ELSE IF key = "github_token"
  THEN (IF /\ value.kind = "String"
           /\ value.s # "" /\ value.s # "default"
           /\ ~HasTokenPrefix(value.s) /\ Len(value.s) < 20
        THEN "err" ELSE "ok")
  ELSE "ok"

\* The match of ConfigHandler::set: the in-memory configuration after it.
\* A value of another variant than the key's leaves the field alone.
Assign(c, key, value) ==
  IF value.kind # KindOf(key) THEN c
  ELSE IF key \in {"mirror_url", "default_network"} THEN [c EXCEPT ![key] = value.s]
  ELSE IF key = "cache_days" THEN [c EXCEPT !.cache_days = AsU32(value.n)]
  ELSE IF key = "max_cache_size" THEN [c EXCEPT !.max_cache_size = value.n]
  ELSE IF key = "install_path"
  THEN [c EXCEPT !.install_path = IF value.s = "default" THEN None ELSE Some(value.s)]
  ELSE IF key = "github_token"
  THEN [c EXCEPT !.github_token =
          IF value.s = "default" \/ value.s = "" THEN None ELSE Some(value.s)]
  ELSE [c EXCEPT ![key] = value.b]

\* The variant that assigns before it validates.
set_assign_first(c, file, key, value) ==
  LET c2 == IF key \in ConfigKeys THEN Assign(c, key, value) ELSE c IN
  IF validate_config_value(key, value) = "err" \/ key \notin ConfigKeys
  THEN [config |-> c2, file |-> file, result |-> "err"]
  ELSE [config |-> c2, file |-> save_config(c2), result |-> "ok"]

\* ConfigHandler::set(key, value) on the handler c and the config file.
set(c, file, key, value) ==
  IF validate_config_value(key, value) = "err"
  THEN [config |-> c, file |-> file, result |-> "err"]
  ELSE IF key \notin ConfigKeys
  THEN [config |-> c, file |-> file, result |-> "err"]
  ELSE LET c2 == Assign(c, key, value) IN
       [config |-> c2, file |-> save_config(c2), result |-> "ok"]

\* The default function of each key.
DefaultOf(key) == DefaultConfig[key]

\* ConfigHandler::unset(key)
unset(c, file, key) ==
  IF key \notin ConfigKeys
  THEN [config |-> c, file |-> file, result |-> "err"]
  ELSE LET c2 == [c EXCEPT ![key] = DefaultOf(key)] IN
       [config |-> c2, file |-> save_config(c2), result |-> "ok"]

\* The variant whose result depends on the configuration it replaces.
reset_toggle(c, file, yes, confirmed) ==
  LET d == IF c = DefaultConfig THEN [DefaultConfig EXCEPT !.auto_cleanup = TRUE]
           ELSE DefaultConfig IN
  IF ~yes /\ ~confirmed
  THEN [config |-> c, file |-> file, result |-> "ok"]
  ELSE [config |-> d, file |-> save_config(d), result |-> "ok"]

\* ConfigHandler::reset(yes); confirmed tells whether the answer read from
\* the terminal starts with y.
reset(c, file, yes, confirmed) ==
  IF ~yes /\ ~confirmed
  THEN [config |-> c, file |-> file, result |-> "ok"]
  ELSE [config |-> DefaultConfig, file |-> save_config(DefaultConfig), result |-> "ok"]

\* ConfigHandler::validate on the handler c: every field is checked and the
\* call fails when at least one check failed.
validate(c) ==
  LET errors ==
        { k \in ConfigKeys :
            \/ k = "mirror_url" /\ validate_url(c.mirror_url) = "err"
            \/ k = "cache_days" /\ validate_cache_days(c.cache_days) = "err"
            \/ k = "max_cache_size" /\ validate_cache_size(c.max_cache_size) = "err"
            \/ k = "default_network" /\ validate_network(c.default_network) = "err"
            \/ /\ k = "install_path"
               /\ IsSome(c.install_path)
               /\ validate_path_writable(Unwrap(c.install_path)) = "err"
            \/ /\ k = "github_token"
               /\ IsSome(c.github_token)
               /\ Unwrap(c.github_token) # ""
               /\ validate_config_value("github_token",
                                        StringValue(Unwrap(c.github_token))) = "err" }
  IN [errors |-> errors, result |-> IF errors = {} THEN "ok" ELSE "err"]

\* ------------------------------------------------------- parse and display

\* The value of a decimal digit character, -1 for any other character.
DigitValue(ch) ==
  IF \E d \in 0..9 : SubSeq("0123456789", d + 1, d + 1) = ch
  THEN CHOOSE d \in 0..9 : SubSeq("0123456789", d + 1, d + 1) = ch
  ELSE -1

\* acc * 10 + d on a 64-bit number.
U64Push(acc, d) ==
  LET t == acc.rem * 10 + d IN U64(acc.mib * 10 + t \div MiB, t % MiB)

\* The digits str[i..] appended to acc.
RECURSIVE ParseDigits(_, _, _)
ParseDigits(str, i, acc) ==
  IF i > Len(str) THEN acc
  ELSE ParseDigits(str, i + 1, U64Push(acc, DigitValue(SubSeq(str, i, i))))

\* str::parse::<u64>: an optional + sign and at least one decimal digit,
\* nothing else.  The strings parsed here have fewer than 16 digits, so
\* the overflow error of the 64-bit type does not arise.
parse_u64(str) ==
  LET first == IF Len(str) > 0 /\ SubSeq(str, 1, 1) = "+" THEN 2 ELSE 1 IN
  IF first > Len(str) \/ \E i \in first..Len(str) : DigitValue(SubSeq(str, i, i)) = -1
  THEN [ok |-> FALSE, n |-> U64(0, 0)]
  ELSE [ok |-> TRUE, n |-> ParseDigits(str, first, U64(0, 0))]

\* The variant that reads every text other than "true" as false.
parse_bool_lenient(str) ==
  IF str = "true" THEN [ok |-> TRUE, b |-> TRUE] ELSE [ok |-> TRUE, b |-> FALSE]

\* str::parse::<bool>
parse_bool(str) ==
  IF str = "true" THEN [ok |-> TRUE, b |-> TRUE]
  ELSE IF str = "false" THEN [ok |-> TRUE, b |-> FALSE]
  ELSE [ok |-> FALSE, b |-> FALSE]

\* ConfigValue::from_string(key, value)
from_string(key, raw) ==
  IF key \in {"mirror_url", "default_network", "install_path", "github_token"}
  THEN [ok |-> TRUE, value |-> StringValue(raw)]
  ELSE IF key \in {"cache_days", "max_cache_size"}
  THEN [ok |-> parse_u64(raw).ok, value |-> NumberValue(parse_u64(raw).n)]
  ELSE IF key \in {"auto_cleanup", "disable_update_warnings"}
  THEN [ok |-> parse_bool(raw).ok, value |-> BooleanValue(parse_bool(raw).b)]
  ELSE [ok |-> FALSE, value |-> StringValue(raw)]

\* The decimal digits of n, least significant first; none for 0.
RECURSIVE DigitsOfInt(_)
DigitsOfInt(n) == IF n = 0 THEN <<>> ELSE <<n % 10>> \o DigitsOfInt(n \div 10)

\* The decimal digits, least significant first, of the number whose digits
\* from the i-th on are digs[i..], times 2^20, plus carry.
RECURSIVE MulCarry(_, _, _)
MulCarry(digs, i, carry) ==
  IF i > Len(digs) THEN DigitsOfInt(carry)
  ELSE LET x == digs[i] * MiB + carry IN
       <<x % 10>> \o MulCarry(digs, i + 1, x \div 10)

\* The text of a digit sequence given least significant digit first.
RECURSIVE DigitText(_)
DigitText(digs) ==
  IF digs = <<>> THEN ""
  ELSE DigitText(Tail(digs)) \o SubSeq("0123456789", digs[1] + 1, digs[1] + 1)

\* u64::to_string
U64ToString(v) ==
  LET digs == MulCarry(DigitsOfInt(v.mib), 1, v.rem) IN
  IF digs = <<>> THEN "0" ELSE DigitText(digs)

\* u32::to_string
U32ToString(n) == U64ToString(U64OfInt(n))

\* bool::to_string
BoolToString(b) == IF b THEN "true" ELSE "false"

\* The first 8 characters and "..." for a token longer than 8 characters,
\* the token itself otherwise (ConfigHandler::list).
TruncateToken(t) == IF Len(t) > 8 THEN SubSeq(t, 1, 8) \o "..." ELSE t

\* ConfigHandler::get(key) on the handler c: the result and the line printed.
get(c, key) ==
  IF key \notin ConfigKeys THEN [result |-> "err", out |-> ""]
  ELSE [ result |-> "ok",
         out |-> IF key \in {"mirror_url", "default_network"} THEN c[key]
                 ELSE IF key = "cache_days" THEN U32ToString(c.cache_days)
                 ELSE IF key = "max_cache_size" THEN U64ToString(c.max_cache_size)
                 ELSE IF key \in {"auto_cleanup", "disable_update_warnings"}
                 THEN BoolToString(c[key])
                 ELSE IF key = "install_path"
                 THEN (IF IsSome(c.install_path) THEN Unwrap(c.install_path) ELSE "default")
                 ELSE (IF IsSome(c.github_token) THEN Unwrap(c.github_token)
                       ELSE "not set") ]

\* ConfigHandler::list on the handler c: the value printed for each key.
list(c) ==
  [ mirror_url              |-> c.mirror_url,
    cache_days              |-> U32ToString(c.cache_days),
    auto_cleanup            |-> BoolToString(c.auto_cleanup),
    max_cache_size          |-> U64ToString(U64OfInt(U64DivMiB(c.max_cache_size))) \o " MB",
    default_network         |-> c.default_network,
    install_path            |-> IF IsSome(c.install_path) THEN Unwrap(c.install_path)
                                ELSE "default",
    disable_update_warnings |-> BoolToString(c.disable_update_warnings),
    github_token            |-> IF IsSome(c.github_token)
                                THEN TruncateToken(Unwrap(c.github_token))
                                ELSE "not set" ]

\* ------------------------------------------------------ fs::write in steps

\* The length of the JSON text of a field's value.
JsonValueLen(c, key) ==
  IF key \in {"mirror_url", "default_network"} THEN Len(c[key]) + 2
  ELSE IF key = "cache_days" THEN Len(U32ToString(c.cache_days))
  ELSE IF key = "max_cache_size" THEN Len(U64ToString(c.max_cache_size))
  ELSE IF key \in {"auto_cleanup", "disable_update_warnings"}
  THEN Len(BoolToString(c[key]))
  ELSE IF IsSome(c[key]) THEN Len(Unwrap(c[key])) + 2 ELSE Len("null")

\* The fields of SuiupConfig in the order serde writes them.
FieldOrder ==
  << "mirror_url", "cache_days", "auto_cleanup", "max_cache_size", "default_network",
     "install_path", "disable_update_warnings", "github_token" >>

\* The length of fields i.. of the pretty-printed object: two spaces, the
\* quoted key, a colon and a space, the value, and ",\n" between fields.
RECURSIVE FieldsLen(_, _)
FieldsLen(c, i) ==
  IF i > Len(FieldOrder) THEN 0
  ELSE 2 + Len(FieldOrder[i]) + 2 + 2 + JsonValueLen(c, FieldOrder[i])
       + (IF i < Len(FieldOrder) THEN 2 ELSE 0) + FieldsLen(c, i + 1)

\* The length of serde_json::to_string_pretty(config).
DocLen(c) == Len("{") + 1 + FieldsLen(c, 1) + 1 + Len("}")

\* The length of a config file save_config has written to.
FileLen(file) ==
  IF file.state = "ok" THEN DocLen(file.doc)
  ELSE IF file.state = "torn" THEN file.doc.len
  ELSE 0

\* The variant of File::create that opens the file without truncating it.
file_create_keep(file) == file

\* File::create, the first system call of fs::write: the file is created,
\* or truncated when it exists.
file_create(file) == CfgEmpty

\* write_all, the second system call of fs::write: the text of c is
\* written from offset 0; what the file holds beyond it stays.
write_all(file, c) ==
  IF DocLen(c) >= FileLen(file) THEN CfgDoc(c) ELSE CfgTorn(c, FileLen(file))

\* A call made inside an operation: the function, the network, branch or
\* directory it is given, and what it returned.
Call(fn, target, res) == [fn |-> fn, target |-> target, result |-> res]

\* ------------------------------------------------------ install dispatcher

\* binaries_dir()
BinariesDir == "binaries"
\* installed_bins_dir.join(sub)
Join(dir, sub) == dir \o "/" \o sub

\* The archive install_from_release or install_standalone leaves in the
\* cache when it downloads one.
DownloadedArchive == File(<<0>>, 60 * MiB, Now)

\* The subdirectory of binaries_dir() the match arm creates, if any.
SubdirFor(name, network) ==
  IF name = "walrus" THEN Some(network)
  ELSE IF name = "site-builder" THEN Some("mainnet")
  ELSE IF name = "mvr" THEN Some("standalone")
  ELSE None

\* The variant that hands the requested network to every release install.
InstallerFor_requested_network(name, network, nightly) ==
  IF IsSome(nightly) THEN [fn |-> "install_from_nightly", target |-> Unwrap(nightly)]
  ELSE IF name = "mvr" THEN [fn |-> "install_standalone", target |-> ""]
  ELSE [fn |-> "install_from_release", target |-> network]

\* The external installer the match arm calls and the network or branch it
\* is given.
InstallerFor(name, network, nightly) ==
  IF IsSome(nightly) THEN [fn |-> "install_from_nightly", target |-> Unwrap(nightly)]
  ELSE IF name = "site-builder" THEN [fn |-> "install_from_release", target |-> "mainnet"]
  ELSE IF name = "mvr" THEN [fn |-> "install_standalone", target |-> ""]
  ELSE [fn |-> "install_from_release", target |-> network]

\* The variant without the guard on debug.
GuardFails_version_only(name, version, nightly, debug) ==
  IsSome(nightly) /\ IsSome(version)

\* The two guards of install_component: TRUE when the call is refused.
GuardFails(name, version, nightly, debug) ==
  \/ (name # "sui" /\ debug /\ nightly = None)
  \/ (IsSome(nightly) /\ IsSome(version))

\* The enable/disable step: the call of set_tool_status, if any.
StatusCalls(enable, disable) ==
  IF enable THEN <<Call("set_tool_status", "enabled", "ok")>>
  ELSE IF disable THEN <<Call("set_tool_status", "disabled", "ok")>>
  ELSE <<>>

\* The last step of install_component on the filesystem fs: the policy is
\* read, auto_cleanup_cache runs and its error is only printed.
PostInstallCleanup(fs) ==
  LET c == from_config_or_default(fs.cfg)
      ac == auto_cleanup_cache(FsState(fs.root, fs.cache, c.file), c.policy)
  IN [ fs     |-> ac.fs,
       result |-> ac.result,
       calls  |-> <<Call("auto_cleanup_cache", "", ac.result)>>
                 \o (IF ac.ran THEN <<Call("handle_cleanup", "", ac.result)>> ELSE <<>>) ]

\* The variant that returns the error of auto_cleanup_cache to the caller.
install_result_propagated(cleanup_result) == cleanup_result

\* What install_component returns once auto_cleanup_cache has returned
\* cleanup_result: an error is printed as a warning and Ok(()) follows.
install_result(cleanup_result) == "ok"

\* install_component with the arguments a, on the filesystem fs and the
\* directories d.  ext is what the collaborators do: the version the
\* registry of installed binaries reports, whether the installer succeeds
\* and whether it downloads an archive.
install_component(fs, d, a, ext) ==
  LET version == IF a.auto_detect /\ a.version = None /\ a.nightly = None
                 THEN ext.detected ELSE a.version
      l == load_config(fs.cfg)
      install_path == IF IsSome(a.path) THEN Unwrap(a.path)
                      ELSE IF l.ok /\ IsSome(l.config.install_path)
                      THEN Unwrap(l.config.install_path)
                      ELSE DefaultBinDir
      fs1 == FsState(fs.root, fs.cache, IF IsSome(a.path) THEN fs.cfg ELSE l.file)
      d1 == d \cup {install_path, BinariesDir}
      calls1 == << Call("create_dir_all", install_path, "ok"),
                   Call("create_dir_all", BinariesDir, "ok") >>
      sub == SubdirFor(a.name, a.network)
      d2 == IF IsSome(sub) THEN d1 \cup {Join(BinariesDir, Unwrap(sub))} ELSE d1
      calls2 == calls1 \o (IF IsSome(sub)
                           THEN <<Call("create_dir_all", Join(BinariesDir, Unwrap(sub)), "ok")>>
                           ELSE <<>>)
      inst == InstallerFor(a.name, a.network, a.nightly)
      calls3 == calls2 \o <<Call(inst.fn, inst.target,
                                 IF ext.installer_ok THEN "ok" ELSE "err")>>
      fs3 == IF ext.download /\ inst.fn # "install_from_nightly"
             THEN FsState(TRUE, fs1.cache \o <<DownloadedArchive>>, fs1.cfg)
             ELSE fs1
      calls4 == calls3 \o StatusCalls(a.enable, a.disable)
      post == PostInstallCleanup(fs3)
  IN IF GuardFails(a.name, version, a.nightly, a.debug)
     THEN [fs |-> fs1, dirs |-> d1, result |-> "err", calls |-> calls1]
     ELSE IF ~ext.installer_ok
     THEN [fs |-> fs1, dirs |-> d2, result |-> "err", calls |-> calls3]
     ELSE [ fs |-> post.fs, dirs |-> d2, result |-> install_result(post.result),
            calls |-> calls4 \o post.calls ]

\* =================================================================== state


VARIABLES
  rootExists,  \* release_archive_dir() exists
  cache,       \* the entries of release_archive_dir(), in read_dir order
  cfgFile,     \* the file at config_file_path()
  config,      \* ConfigHandler.config of the handler the config commands use
  op,          \* the last call and its arguments
  result,      \* what the last call returned: "ok" or "err"
  pre,         \* the filesystem and handler when the last call started
  calls,       \* the calls the last call made, in order
  procs        \* the config handlers of processes that run side by side

vars == <<rootExists, cache, cfgFile, config, dirs, op, result, pre, calls, procs>>

\* The calls of fn among the calls the last call made.
CallsOf(fn) == SelectSeq(calls, LAMBDA c : c.fn = fn)

Fs == FsState(rootExists, cache, cfgFile)
Snapshot == [root |-> rootExists, cache |-> cache, cfg |-> cfgFile, config |-> config]

\* ------------------------------------------------------------------ inputs

\* File sizes in bytes: 60 MB, and 40.5 MB.
Sizes == {60 * MiB, 40 * MiB + 524288}
\* Modified times: 40 days ago, exactly 30 days ago, one day ahead of the clock.
MTimes == {Now - 40 * DAY, Now - 30 * DAY, Now + DAY}
\* The days argument of the sweeps.
DaysArgs == {7, 30}

PlainFiles == {File(<<>>, sz, mt) : sz \in Sizes, mt \in MTimes}

\* What the root's listing may hold: a regular file, a subdirectory holding
\* one regular file, or an empty subdirectory.
Items ==
  PlainFiles
  \cup {Dir(<<>>, <<f>>) : f \in PlainFiles}
  \cup {Dir(<<>>, <<>>)}

\* Every entry gets its path: its index in each listing from the root down.
RECURSIVE Relabel(_, _)
Relabel(entries, prefix) ==
  [ i \in DOMAIN entries |->
      [ entries[i] EXCEPT !.path = prefix \o <<i>>,
                          !.sub  = Relabel(entries[i].sub, prefix \o <<i>>) ] ]

CacheTrees == {Relabel(t, <<>>) : t \in SeqsUpTo(Items, MaxEntries)}

\* A document a user could have saved: a 100 MB limit, auto cleanup on.
SmallLimitConfig ==
  [DefaultConfig EXCEPT !.max_cache_size = U64(100, 0),
                        !.auto_cleanup = TRUE,
                        !.cache_days = 7]

CfgFiles == {CfgMissing, CfgMalformed, CfgDoc(SmallLimitConfig)}

NoOp == [name |-> "none"]

\* -------------------------------------------------------------- cache spec

InitCache ==
  /\ rootExists \in BOOLEAN
  /\ cache \in CacheTrees
  /\ ~rootExists => cache = <<>>
  /\ cfgFile \in CfgFiles
  /\ config = DefaultConfig
  /\ dirs = {}
  /\ op = NoOp
  /\ result = "none"
  /\ pre = Snapshot
  /\ calls = <<>>
  /\ procs = <<>>

Commit(out) ==
  /\ rootExists' = out.fs.root
  /\ cache' = out.fs.cache
  /\ cfgFile' = out.fs.cfg
  /\ result' = out.result
  /\ pre' = Snapshot

HandleCleanup(all, days, dry_run) ==
  /\ Commit(handle_cleanup(Fs, all, days, dry_run))
  /\ op' = [name |-> "handle_cleanup", all |-> all, days |-> days, dry_run |-> dry_run]
  /\ calls' = <<>>
  /\ UNCHANGED <<config, dirs, procs>>

SmartCleanup(days, dry_run) ==
  /\ Commit(smart_cleanup(Fs, days, dry_run))
  /\ op' = [name |-> "smart_cleanup", days |-> days, dry_run |-> dry_run]
  /\ calls' = <<>>
  /\ UNCHANGED <<config, dirs, procs>>

\* The policies auto_cleanup_cache is called with.
Policies == {CacheConfig(100, 7, TRUE), CacheConfig(100, 30, FALSE)}

AutoCleanupCache(policy) ==
  LET out == auto_cleanup_cache(Fs, policy) IN
  /\ Commit(out)
  /\ op' = [name |-> "auto_cleanup_cache", policy |-> policy]
  /\ calls' = IF out.ran THEN <<Call("handle_cleanup", "", out.result)>> ELSE <<>>
  /\ UNCHANGED <<config, dirs, procs>>

\* One cleanup command: the process runs handle_cleanup_advanced once.
HandleCleanupAdvanced(all, days, dry_run, stats, smart) ==
  LET out == handle_cleanup_advanced(Fs, all, days, dry_run, stats, smart) IN
  /\ op = NoOp
  /\ Commit(out)
  /\ op' = [ name |-> "handle_cleanup_advanced", all |-> all, days |-> days,
              dry_run |-> dry_run, stats |-> stats, smart |-> smart ]
  /\ calls' = <<Call(out.ran, "", out.result)>>
  /\ UNCHANGED <<config, dirs, procs>>

NextCache ==
  \/ \E all \in BOOLEAN, days \in DaysArgs, dry_run \in BOOLEAN :
       HandleCleanup(all, days, dry_run)
  \/ \E days \in DaysArgs, dry_run \in BOOLEAN : SmartCleanup(days, dry_run)
  \/ \E policy \in Policies : AutoCleanupCache(policy)

SpecCache == InitCache /\ [][NextCache]_vars

\* The cleanup command on the caches and config files of InitCache.
NextCleanupCommand ==
  \E all \in BOOLEAN, days \in DaysArgs, dry_run \in BOOLEAN,
     stats \in BOOLEAN, smart \in BOOLEAN :
    HandleCleanupAdvanced(all, days, dry_run, stats, smart)

SpecCleanupCommand == InitCache /\ [][NextCleanupCommand]_vars

\* ================================================= claims of the cache spec

IsSmart(dry) == op.name = "smart_cleanup" /\ op.dry_run = dry
IsSweep(all, dry) == op.name = "handle_cleanup" /\ op.all = all /\ op.dry_run = dry

\* The policy the call read: the config file's, or the default one.
PolicyRead == from_config_or_default(pre.cfg).policy
PathsOf(files) == {f.path : f \in files}
NestedFiles(tree) == AllFiles(tree) \ TopFiles(tree)
\* f is older than d days.
OlderThan(f, d) == Now - f.mtime > d * DAY
\* The bytes of the files whose modified time is not in the future.
DatedSize(tree) ==
  LET fs == collect_files_recursively(tree) IN
  SumSeq([i \in DOMAIN fs |-> fs[i].size])

\* C1: after smart_cleanup(D, dry_run = false), either the cache total is at
\* most max_size_mb * 2^20 bytes or no remaining file is older than D days;
\* and the files kept are a suffix, in ascending modified-time order, of the
\* files present before: no removed file is newer than a kept one.
C1_SmartCleanupInvariant ==
  IsSmart(FALSE) =>
    LET kept == AllFiles(cache)
        before == AllFiles(pre.cache)
    IN /\ \/ calculate_dir_size(cache) <= PolicyRead.max_size_mb * MiB
          \/ \A f \in kept : ~OlderThan(f, op.days)
       /\ kept \subseteq before
       /\ \A f \in kept, g \in before \ kept : g.mtime <= f.mtime

\* C1 witness: a sweep removed a file that is not older than D days, for
\* size alone, and kept a newer one.
C1_Witness ==
  /\ IsSmart(FALSE)
  /\ \E g \in AllFiles(pre.cache) \ AllFiles(cache) : ~OlderThan(g, op.days)
  /\ \E f \in AllFiles(cache) : f.mtime <= Now

\* C2 (as claimed): after handle_cleanup(all = false, D, dry_run = false) no
\* top-level regular file is older than D days, and every top-level file
\* that was not older than D days is still there.
C2_AgeSweepInvariant ==
  IsSweep(FALSE, FALSE) =>
    /\ \A f \in TopFiles(cache) : ~OlderThan(f, op.days)
    /\ \A f \in TopFiles(pre.cache) : ~OlderThan(f, op.days) => f \in TopFiles(cache)

\* C3 (as claimed): a dry run of either sweep leaves the whole filesystem,
\* the config file included, as it was.
C3_DryRunLeavesFilesystem ==
  (IsSmart(TRUE) \/ (op.name = "handle_cleanup" /\ op.dry_run)) =>
    /\ rootExists = pre.root
    /\ cache = pre.cache
    /\ cfgFile = pre.cfg

\* C3 (amended): a dry run of either sweep leaves the cache root and every
\* entry below it as they were; the config file is as it was too, except
\* that a missing config file has been created holding the defaults.
C3_DryRunLeavesCache ==
  (IsSmart(TRUE) \/ (op.name = "handle_cleanup" /\ op.dry_run)) =>
    /\ rootExists = pre.root
    /\ cache = pre.cache
    /\ cfgFile = IF pre.cfg.state = "missing" THEN CfgDoc(DefaultConfig) ELSE pre.cfg

\* C3 witness: a dry run over a cache holding a file the real sweep removes,
\* with the config file missing before the call.
C3_Witness ==
  /\ op.name = "handle_cleanup" /\ op.dry_run /\ ~op.all
  /\ result = "ok"
  /\ pre.cfg.state = "missing"
  /\ \E f \in TopFiles(cache) : OlderThan(f, op.days)

\* C4 (as claimed): when the cache total exceeds max_cache_size, after
\* smart_cleanup(D, dry_run = false) the bytes left in the cache do not
\* exceed max_cache_size.
C4_SmartWithinBytes ==
  ( /\ IsSmart(FALSE)
    /\ pre.cfg.state = "ok"
    /\ U64Lt(pre.cfg.doc.max_cache_size, U64OfInt(calculate_dir_size(pre.cache))) )
  => U64Le(U64OfInt(calculate_dir_size(cache)), pre.cfg.doc.max_cache_size)

\* C4 (amended): when the cache total exceeds max_cache_size, after
\* smart_cleanup(D, dry_run = false) the bytes of the remaining files whose
\* modified time is not in the future, divided by 2^20 with truncation, do
\* not exceed max_cache_size / 2^20.
C4_SmartWithinMegabytes ==
  ( /\ IsSmart(FALSE)
    /\ pre.cfg.state = "ok"
    /\ U64Lt(pre.cfg.doc.max_cache_size, U64OfInt(calculate_dir_size(pre.cache))) )
  => DatedSize(cache) \div MiB <= U64DivMiB(pre.cfg.doc.max_cache_size)

\* C4 witness: the cache was over the limit in megabytes, the sweep removed
\* a file and a file is left.
C4_Witness ==
  /\ IsSmart(FALSE)
  /\ pre.cfg.state = "ok"
  /\ DatedSize(pre.cache) \div MiB > U64DivMiB(pre.cfg.doc.max_cache_size)
  /\ AllFiles(cache) # AllFiles(pre.cache)
  /\ DatedSize(cache) > 0

\* C5: handle_cleanup(all = false, days, dry_run) leaves every file inside a
\* subdirectory, and every subdirectory, as it was.
C5_ShallowSweep ==
  (op.name = "handle_cleanup" /\ ~op.all) =>
    /\ NestedFiles(cache) = NestedFiles(pre.cache)
    /\ AllDirs(cache) = AllDirs(pre.cache)

\* C5 witness: the sweep removed a top-level file and left a nested file
\* that is older than the cutoff.
C5_Witness ==
  /\ IsSweep(FALSE, FALSE)
  /\ TopFiles(cache) # TopFiles(pre.cache)
  /\ \E f \in NestedFiles(cache) : OlderThan(f, op.days)

\* C6: after handle_cleanup(all = true, days, dry_run = false) on an
\* existing root, the root exists and holds no entry.
C6_RemoveAll ==
  (IsSweep(TRUE, FALSE) /\ pre.root) => (rootExists /\ cache = <<>>)

\* C6 witness: remove-all ran over a root holding a subdirectory with a
\* file and a top-level file that is not older than the days argument.
C6_Witness ==
  /\ IsSweep(TRUE, FALSE)
  /\ pre.root
  /\ NestedFiles(pre.cache) # {}
  /\ \E f \in TopFiles(pre.cache) : ~OlderThan(f, op.days)
  /\ cache = <<>>

\* C7: auto_cleanup_cache(policy) calls handle_cleanup(false,
\* policy.max_age_days, false) exactly when the policy is enabled and
\* total / 2^20 > max_size_mb; otherwise it removes nothing and succeeds.
C7_AutoCleanupGate ==
  op.name = "auto_cleanup_cache" =>
    LET due == /\ op.policy.auto_cleanup_enabled
               /\ calculate_dir_size(pre.cache) \div MiB > op.policy.max_size_mb
        sweep == handle_cleanup(FsState(pre.root, pre.cache, pre.cfg),
                                FALSE, op.policy.max_age_days, FALSE)
    IN /\ (CallsOf("handle_cleanup") # <<>>) <=> due
       /\ due => (Fs = sweep.fs /\ result = sweep.result)
       /\ ~due => (Fs = FsState(pre.root, pre.cache, pre.cfg) /\ result = "ok")

\* C7 witness: an enabled policy over its limit made the sweep run and a
\* file is gone.
C7_Witness ==
  /\ op.name = "auto_cleanup_cache"
  /\ CallsOf("handle_cleanup") # <<>>
  /\ AllFiles(cache) # AllFiles(pre.cache)

\* The filesystem when the last call started.
PreFs == FsState(pre.root, pre.cache, pre.cfg)

\* C25: handle_cleanup_advanced dispatches by strict precedence: with
\* stats it only reports statistics and removes no cache file, whatever
\* the other flags are; otherwise with smart it runs
\* smart_cleanup(days, dry_run); otherwise it runs
\* handle_cleanup(all, days, dry_run).
C25_DispatchPrecedence ==
  op.name = "handle_cleanup_advanced" =>
    /\ op.stats =>
         /\ calls = <<Call("get_cache_stats", "", "ok")>>
         /\ cache = pre.cache /\ rootExists = pre.root /\ result = "ok"
    /\ (~op.stats /\ op.smart) =>
         LET s == smart_cleanup(PreFs, op.days, op.dry_run) IN
         /\ calls = <<Call("smart_cleanup", "", result)>>
         /\ Fs = s.fs /\ result = s.result
    /\ (~op.stats /\ ~op.smart) =>
         LET h == handle_cleanup(PreFs, op.all, op.days, op.dry_run) IN
         /\ calls = <<Call("handle_cleanup", "", result)>>
         /\ Fs = h.fs /\ result = h.result

\* C25 witness: stats was asked for together with smart and all, without
\* dry_run, on a cache the smart sweep would have removed files from.
C25_Witness ==
  /\ op.name = "handle_cleanup_advanced"
  /\ op.stats /\ op.smart /\ op.all /\ ~op.dry_run
  /\ smart_cleanup(PreFs, op.days, FALSE).fs.cache # pre.cache
  /\ cache = pre.cache

\* C30: when a top-level file has a modified time in the future,
\* handle_cleanup(all = false, D, dry_run = false) skips it: the call
\* returns success, the file stays, and every other top-level file older
\* than D days is removed, wherever the file stands in the listing.
C30_FutureFileSkipped ==
  ( /\ IsSweep(FALSE, FALSE)
    /\ pre.root
    /\ \E f \in TopFiles(pre.cache) : ~AgeOk(f) )
  => /\ result = "ok"
     /\ \A f \in TopFiles(pre.cache) : ~AgeOk(f) => f \in TopFiles(cache)
     /\ \A f \in TopFiles(cache) : ~OlderThan(f, op.days)

\* The counters of smart_cleanup's loop after its first k iterations.
CountersAfter(sorted, k, max_size_mb, days) ==
  LET total == SumSeq([i \in DOMAIN sorted |-> sorted[i].size]) IN
  SmartLoop(SubSeq(sorted, 1, k),
            [ cleaned_size |-> 0, files_removed |-> 0,
              remaining_size |-> total, gone |-> {} ],
            max_size_mb, cutoff_duration(days))

\* C27: during smart_cleanup, remaining_size + cleaned_size equals the
\* total of the collected sizes after every loop iteration and
\* remaining_size never goes below zero; when a sweep that is not a dry
\* run completes, remaining_size / 2^20 <= max_size_mb.
C27_CountersAndFinalSize ==
  op.name = "smart_cleanup" =>
    LET out == smart_cleanup(PreFs, op.days, op.dry_run)
        total == SumSeq([i \in DOMAIN out.sorted |-> out.sorted[i].size])
    IN /\ \A k \in 0..Len(out.sorted) :
            LET acc == CountersAfter(out.sorted, k, out.policy.max_size_mb, op.days) IN
            /\ acc.remaining_size + acc.cleaned_size = total
            /\ acc.remaining_size >= 0
       /\ (~op.dry_run /\ result = "ok") =>
            /\ out.remaining_size \div MiB <= out.policy.max_size_mb
            /\ out.remaining_size = DatedSize(cache)

\* C27 witness: a sweep that is not a dry run started over the limit,
\* removed a file in its first iteration, kept a later one and ended with
\* bytes left.
C27_Witness ==
  /\ IsSmart(FALSE)
  /\ result = "ok"
  /\ LET out == smart_cleanup(PreFs, op.days, FALSE) IN
     /\ Len(out.sorted) >= 2
     /\ DatedSize(pre.cache) \div MiB > out.policy.max_size_mb
     /\ CountersAfter(out.sorted, 1, out.policy.max_size_mb, op.days).cleaned_size > 0
     /\ out.sorted[Len(out.sorted)].path \notin out.gone
     /\ out.remaining_size > 0

\* ============================================================= config spec

\* The (key, value) pairs set is called with: for every key, values its
\* validator accepts, values it rejects and values of another variant.
SetArgs ==
  ({"mirror_url"} \X {StringValue("https://mirror.example.com"),
                     StringValue("https://github.com"),
                     StringValue("ftp://mirror.example.com"),
                     StringValue("not a url"), NumberValue(U64(0, 7))})
  \cup ({"cache_days"} \X {NumberValue(U64(0, 7)), NumberValue(U64(0, 0)),
                          NumberValue(U64(0, 30)),
                          NumberValue(U64(0, 366)), NumberValue(U64(4096, 30)),
                          StringValue("seven"), BooleanValue(TRUE)})
  \cup ({"auto_cleanup"} \X {BooleanValue(TRUE), BooleanValue(FALSE), StringValue("true")})
  \cup ({"max_cache_size"} \X {NumberValue(U64(100, 0)), NumberValue(U64(99, 1048575)),
                              NumberValue(U64(1024, 0)),
                              NumberValue(U64(100 * 1024, 1)), StringValue("1 GB")})
  \cup ({"default_network"} \X {StringValue("mainnet"), StringValue("localnet"),
                               StringValue("testnet"),
                               BooleanValue(FALSE)})
  \cup ({"install_path"} \X {StringValue("/opt/suiup/bin"), StringValue("/nonexistent/bin"),
                            StringValue(DefaultBinDir),
                            StringValue("/readonly/bin"), StringValue("default"),
                            NumberValue(U64(0, 1))})
  \cup ({"disable_update_warnings"} \X {BooleanValue(TRUE), BooleanValue(FALSE),
                                       NumberValue(U64(0, 1))})
  \cup ({"github_token"} \X {StringValue("ghp_0123456789abcdef0123"),
                            StringValue("ghp_short"), StringValue("short"),
                            StringValue("token_without_prefix_0123"),
                            StringValue("default"), StringValue(""),
                            BooleanValue(TRUE)})
  \cup ({"colour"} \X {StringValue("blue"), BooleanValue(TRUE)})

\* The handler has loaded the config file of a fresh installation.
InitConfig ==
  /\ rootExists = TRUE
  /\ cache = <<>>
  /\ cfgFile = load_config(CfgMissing).file
  /\ config = load_config(CfgMissing).config
  /\ dirs \in {{}, {HomeLocal}}
  /\ op = NoOp
  /\ result = "none"
  /\ pre = Snapshot
  /\ calls = <<>>
  /\ procs = <<>>

CommitConfig(out) ==
  /\ config' = out.config
  /\ cfgFile' = out.file
  /\ result' = out.result
  /\ pre' = Snapshot
  /\ calls' = <<>>
  /\ UNCHANGED <<rootExists, cache, dirs, procs>>

Set(key, value) ==
  /\ CommitConfig(set(config, cfgFile, key, value))
  /\ op' = [name |-> "set", key |-> key, value |-> value]

Unset(key) ==
  /\ CommitConfig(unset(config, cfgFile, key))
  /\ op' = [name |-> "unset", key |-> key]

Reset(yes, confirmed) ==
  /\ CommitConfig(reset(config, cfgFile, yes, confirmed))
  /\ op' = [name |-> "reset", yes |-> yes, confirmed |-> confirmed]

\* ConfigHandler::validate leaves the handler and the file alone.
Validate ==
  /\ CommitConfig([config |-> config, file |-> cfgFile, result |-> validate(config).result])
  /\ op' = [name |-> "validate", errors |-> validate(config).errors]

\* The key and raw text given to `config set` on the command line.
RawArgs ==
  ({"mirror_url"} \X {"https://mirror.example.com", "not a url"})
  \cup ({"cache_days"} \X {"7", "007", "+7", "seven", "0", "4294967326"})
  \cup ({"auto_cleanup"} \X {"true", "false", "TRUE"})
  \cup ({"max_cache_size"} \X {"104857600", "0104857600", "107374182401", ""})
  \cup ({"default_network"} \X {"localnet"})
  \cup ({"install_path"} \X {"/opt/suiup/bin", "default"})
  \cup ({"disable_update_warnings"} \X {"yes"})
  \cup ({"github_token"} \X {"ghp_0123456789abcdef0123", "ghp_short", "default", ""})
  \cup ({"colour"} \X {"blue"})

\* `config set key raw`: ConfigValue::from_string, then ConfigHandler::set.
ConfigSet(key, raw) ==
  LET p == from_string(key, raw) IN
  /\ CommitConfig(IF p.ok THEN set(config, cfgFile, key, p.value)
                  ELSE [config |-> config, file |-> cfgFile, result |-> "err"])
  /\ op' = [name |-> "config_set", key |-> key, raw |-> raw, value |-> p.value]

\* ConfigHandler::get(key): the value is printed on success.
Get(key) ==
  LET g == get(config, key) IN
  /\ op' = [name |-> "get", key |-> key]
  /\ result' = g.result
  /\ calls' = IF g.result = "ok" THEN <<Call("println", g.out, "ok")>> ELSE <<>>
  /\ pre' = Snapshot
  /\ UNCHANGED <<rootExists, cache, cfgFile, config, dirs, procs>>

\* The order in which ConfigHandler::list prints the keys.
ListOrder ==
  << "mirror_url", "cache_days", "auto_cleanup", "max_cache_size", "default_network",
     "install_path", "disable_update_warnings", "github_token" >>

\* ConfigHandler::list: one line per key.
List ==
  /\ op' = [name |-> "list"]
  /\ result' = "ok"
  /\ calls' = [ i \in 1..Len(ListOrder) |->
                  Call("println", ListOrder[i] \o " = " \o list(config)[ListOrder[i]], "ok") ]
  /\ pre' = Snapshot
  /\ UNCHANGED <<rootExists, cache, cfgFile, config, dirs, procs>>

NextConfig ==
  \/ \E a \in SetArgs : Set(a[1], a[2])
  \/ Validate
  \/ \E key \in ConfigKeys \cup {"colour"} : Unset(key)
  \/ \E yes \in BOOLEAN, confirmed \in BOOLEAN : Reset(yes, confirmed)

SpecConfig == InitConfig /\ [][NextConfig]_vars

\* C9: when validate_config_value rejects the value, or the key is unknown,
\* set returns an error and the handler's configuration and the config
\* file are what they were before the call.
C9_SetValidatesFirst ==
  ( /\ op.name = "set"
    /\ \/ validate_config_value(op.key, op.value) = "err"
       \/ op.key \notin ConfigKeys )
  => (result = "err" /\ config = pre.config /\ cfgFile = pre.cfg)

\* C9 witness: set was refused for a value of the key's own variant, on a
\* handler whose configuration is no longer the default one.
C9_Witness ==
  /\ op.name = "set"
  /\ op.key \in ConfigKeys
  /\ op.value.kind = KindOf(op.key)
  /\ result = "err"
  /\ config # DefaultConfig

\* C10 (as claimed): set returns an error for a value whose variant is not
\* the one of the key's type.
C10_SetRejectsMismatch ==
  ( /\ op.name = "set"
    /\ op.key \in ConfigKeys
    /\ op.value.kind # KindOf(op.key) )
  => result = "err"

\* C15: unset(key) applied a second time leaves the in-memory and the
\* persisted configuration as the first application left them, and so does
\* a second confirmed reset.
C15_DefaultIdempotence ==
  /\ op.name = "unset" =>
       LET again == unset(config, cfgFile, op.key) IN
       again.config = config /\ again.file = cfgFile /\ again.result = result
  /\ (op.name = "reset" /\ (op.yes \/ op.confirmed)) =>
       LET again == reset(config, cfgFile, op.yes, op.confirmed) IN
       again.config = config /\ again.file = cfgFile /\ again.result = result

\* C15 witness: an unset, and a confirmed reset, that changed the
\* configuration they were applied to.
C15_Witness ==
  /\ op.name \in {"unset", "reset"}
  /\ result = "ok"
  /\ pre.config # config
  /\ pre.cfg # cfgFile

\* C16 (as claimed): for install_path and github_token, set(key, "default")
\* leaves the configuration as unset(key) would from the same state, and
\* set("github_token", "") clears github_token.
C16_DefaultSentinelIsUnset ==
  /\ ( /\ op.name = "set"
       /\ op.key \in {"install_path", "github_token"}
       /\ op.value = StringValue("default") )
     => /\ result = "ok"
        /\ config = unset(pre.config, pre.cfg, op.key).config
        /\ cfgFile = unset(pre.config, pre.cfg, op.key).file
  /\ ( /\ op.name = "set"
       /\ op.key = "github_token"
       /\ op.value = StringValue("") )
     => (result = "ok" /\ config.github_token = None)

\* The value of a key's default function as a ConfigValue; an unset
\* optional key is written with the "default" sentinel.
DefaultValue(key) ==
  IF key \in {"mirror_url", "default_network"} THEN StringValue(DefaultOf(key))
  ELSE IF key = "cache_days" THEN NumberValue(U64OfInt(DefaultOf(key)))
  ELSE IF key = "max_cache_size" THEN NumberValue(DefaultOf(key))
  ELSE IF key \in {"install_path", "github_token"}
  THEN StringValue(IF IsSome(DefaultOf(key)) THEN Unwrap(DefaultOf(key)) ELSE "default")
  ELSE BooleanValue(DefaultOf(key))

\* C21 (as claimed): every key's validator accepts the value its default
\* function returns: set(key, default value of key) succeeds, and validate
\* succeeds on a freshly defaulted configuration.
C21_ValidatorTotality ==
  /\ (op.name = "set" /\ op.key \in ConfigKeys /\ op.value = DefaultValue(op.key))
       => result = "ok"
  /\ (op.name = "validate" /\ config = DefaultConfig) => result = "ok"

\* ------------------------------------------------- configuration commands

\* The `config` subcommands that take and print text, run one after the
\* other on a fresh installation.
NextConfigCli ==
  \/ \E a \in RawArgs : ConfigSet(a[1], a[2])
  \/ \E key \in ConfigKeys \cup {"colour"} : Get(key)
  \/ List

SpecConfigCli == InitConfig /\ [][NextConfigCli]_vars

\* The token format of the configuration table: one of the five prefixes
\* and at least 20 characters.
TokenWellFormed(token) == HasTokenPrefix(token) /\ Len(token) >= 20

\* C11 (as claimed): a present github_token is accepted by set and by
\* validate only if it starts with one of the five prefixes and has at
\* least 20 characters.
C11_TokenPrefixAndLength ==
  /\ ( /\ op.name = "set"
       /\ op.key = "github_token"
       /\ op.value.kind = "String"
       /\ op.value.s \notin {"", "default"}
       /\ result = "ok" ) => TokenWellFormed(op.value.s)
  /\ ( /\ op.name = "validate"
       /\ IsSome(config.github_token)
       /\ Unwrap(config.github_token) # ""
       /\ result = "ok" ) => TokenWellFormed(Unwrap(config.github_token))

\* 1 <= v <= 365 on the 64-bit number v.
DaysInRange(v) == U64Le(U64(0, 1), v) /\ U64Le(v, U64(0, 365))

\* C12 (as claimed): set("cache_days", Number(v)) succeeds only if
\* 1 <= v <= 365; for any other 64-bit v it returns an error and cache_days
\* is unchanged.
C12_CacheDaysRange ==
  ( /\ op.name = "set"
    /\ op.key = "cache_days"
    /\ op.value.kind = "Number"
    /\ ~DaysInRange(op.value.n) )
  => (result = "err" /\ config.cache_days = pre.config.cache_days)

\* C13: from the default configuration, after any sequence of set, unset
\* and reset (successful or failed) the stored fields satisfy their
\* constraints: 1 <= cache_days <= 365, 100 MiB <= max_cache_size <= 100 GiB
\* and default_network is testnet, devnet or mainnet.
C13_StoredFieldsInRange ==
  /\ 1 <= config.cache_days /\ config.cache_days <= 365
  /\ U64Le(U64(100, 0), config.max_cache_size)
  /\ U64Le(config.max_cache_size, U64(100 * 1024, 0))
  /\ config.default_network \in {"testnet", "devnet", "mainnet"}
  /\ cfgFile = CfgDoc(config)

\* C13 witness: the three fields have all been changed and the last
\* operation was a set that failed.
C13_Witness ==
  /\ op.name = "set"
  /\ result = "err"
  /\ config.cache_days # default_cache_days
  /\ config.max_cache_size # default_max_cache_size
  /\ config.default_network # default_default_network

\* A decimal numeral without its + sign and leading zeros.
RECURSIVE StripZeros(_)
StripZeros(str) ==
  IF Len(str) > 1 /\ SubSeq(str, 1, 1) = "0" THEN StripZeros(SubSeq(str, 2, Len(str)))
  ELSE str
CanonicalDecimal(str) ==
  StripZeros(IF Len(str) > 1 /\ SubSeq(str, 1, 1) = "+" THEN SubSeq(str, 2, Len(str)) ELSE str)

\* `config set key raw` succeeded with a value valid for the key, other
\* than the "default" sentinel of install_path.
RoundTripCase ==
  /\ op.name = "config_set"
  /\ result = "ok"
  /\ op.key = "cache_days" => DaysInRange(op.value.n)
  /\ ~(op.key = "install_path" /\ op.raw = "default")

\* C14 (as claimed): for every key and every value valid for it,
\* set(key, parse(value)) followed by get(key) yields value, up to the
\* truncation of github_token and the "default" sentinel of install_path.
C14_RoundTrip ==
  RoundTripCase =>
    IF op.key = "github_token"
    THEN get(config, op.key).out \in {op.raw, TruncateToken(op.raw)}
    ELSE get(config, op.key).out = op.raw

\* C14 (amended): get(key) after set(key, parse(value)) yields value for
\* strings and booleans, the numeral without + sign and leading zeros for
\* numbers, and "not set" after github_token was set to "default" or "";
\* a stored github_token is shown whole or truncated.
C14_RoundTripCanonical ==
  RoundTripCase =>
    LET out == get(config, op.key).out IN
    IF op.key = "github_token"
    THEN (IF op.raw \in {"", "default"} THEN out = "not set"
          ELSE out \in {op.raw, TruncateToken(op.raw)})
    ELSE IF op.key \in {"cache_days", "max_cache_size"}
    THEN out = CanonicalDecimal(op.raw)
    ELSE out = op.raw

\* C14 witness: a number written with a sign or leading zeros was set and
\* get shows it in canonical form.
C14_Witness ==
  /\ RoundTripCase
  /\ op.key \in {"cache_days", "max_cache_size"}
  /\ op.raw # CanonicalDecimal(op.raw)
  /\ get(config, op.key).out = CanonicalDecimal(op.raw)

\* C20 (as claimed): get("github_token") shows the first 8 characters and
\* an ellipsis for a stored token longer than 8 characters, the whole token
\* when it has at most 8 characters, and "not set" when no token is stored.
\* The ellipsis is written "...", as list prints it.
C20_GetTruncatesToken ==
  (op.name = "get" /\ op.key = "github_token") =>
    /\ result = "ok"
    /\ Len(calls) = 1
    /\ calls[1].fn = "println"
    /\ LET shown == calls[1].target
           token == config.github_token
       IN IF token = None THEN shown = "not set"
          ELSE IF Len(Unwrap(token)) <= 8 THEN shown = Unwrap(token)
          ELSE shown = SubSeq(Unwrap(token), 1, 8) \o "..."

\* ================================================================ load spec

\* A configuration every field of which differs from its default.
CustomConfig ==
  [ mirror_url              |-> "https://mirror.example.com",
    cache_days              |-> 7,
    auto_cleanup            |-> TRUE,
    max_cache_size          |-> U64(100, 0),
    default_network         |-> "mainnet",
    install_path            |-> Some("/opt/suiup/bin"),
    disable_update_warnings |-> TRUE,
    github_token            |-> Some("ghp_0123456789abcdef0123") ]

\* The config files a command may find.
LoadFiles ==
  {CfgMissing, CfgMalformed}
  \cup { CfgJson(present, extra, CustomConfig) :
           present \in SUBSET ConfigKeys, extra \in BOOLEAN }

\* No handler exists yet; config holds a value only once New has succeeded.
InitLoad ==
  /\ rootExists = TRUE
  /\ cache = <<>>
  /\ cfgFile \in LoadFiles
  /\ config = DefaultConfig
  /\ dirs = {}
  /\ op = NoOp
  /\ result = "none"
  /\ pre = Snapshot
  /\ calls = <<>>
  /\ procs = <<>>

\* ConfigHandler::new(): the handler holds what load_config returned.
New ==
  LET l == load_config(cfgFile) IN
  /\ config' = IF l.ok THEN l.config ELSE config
  /\ cfgFile' = l.file
  /\ result' = IF l.ok THEN "ok" ELSE "err"
  /\ op' = [name |-> "new", error |-> l.error]
  /\ pre' = Snapshot
  /\ calls' = <<>>
  /\ UNCHANGED <<rootExists, cache, dirs, procs>>

NextLoad == New

SpecLoad == InitLoad /\ [][NextLoad]_vars

\* The defaults of the configuration table.
DocumentedDefaults ==
  [ mirror_url              |-> "https://github.com",
    cache_days              |-> 30,
    auto_cleanup            |-> FALSE,
    max_cache_size          |-> U64(1024, 0),
    default_network         |-> "testnet",
    install_path            |-> None,
    disable_update_warnings |-> FALSE,
    github_token            |-> None ]

\* C17 (as claimed): a freshly defaulted configuration, and every field
\* missing from a loaded JSON document, takes the documented default.
C17_DocumentedDefaults ==
  (op.name = "new" /\ result = "ok") =>
    \A k \in ConfigKeys :
      ( \/ pre.cfg.state = "missing"
        \/ (pre.cfg.state = "json" /\ k \notin pre.cfg.doc.present) )
      => config[k] = DocumentedDefaults[k]

\* C18: load on a file holding malformed JSON fails with a ConfigError and
\* leaves the file as it is; load on a missing file creates the file
\* holding the defaults and returns the defaults.
C18_LoadMalformedAndMissing ==
  /\ (op.name = "new" /\ pre.cfg.state = "malformed") =>
       (result = "err" /\ op.error = "ConfigError" /\ cfgFile = pre.cfg)
  /\ (op.name = "new" /\ pre.cfg.state = "missing") =>
       (result = "ok" /\ config = DefaultConfig /\ cfgFile = CfgDoc(DefaultConfig))

\* C18 witness: load has failed on a malformed file.
C18_Witness ==
  /\ op.name = "new"
  /\ pre.cfg = CfgMalformed
  /\ result = "err"

\* C19 (as claimed): load fails on a document that holds a key other than
\* the configuration fields.
C19_UnknownKeyRejected ==
  (op.name = "new" /\ pre.cfg.state = "json" /\ pre.cfg.doc.extra) => result = "err"

\* ============================================================ install spec

BinaryNames == {"sui", "mvr", "walrus", "site-builder"}

InstallArgs ==
  { a \in [ name         : BinaryNames,
            network      : {"testnet", "devnet"},
            version      : {None, Some("1.39.3")},
            nightly      : {None, Some("main")},
            debug        : BOOLEAN,
            yes          : {TRUE},
            path         : {None, Some("/opt/suiup/bin")},
            enable       : BOOLEAN,
            disable      : BOOLEAN,
            auto_detect  : BOOLEAN,
            github_token : {None} ] :
      ~(a.enable /\ a.disable) }

\* What the collaborators may do for the arguments a.
ExtFor(a) ==
  { e \in [detected : {None, Some("1.38.0")}, installer_ok : BOOLEAN, download : BOOLEAN] :
      /\ IsSome(e.detected) => (a.auto_detect /\ a.version = None /\ a.nightly = None)
      /\ e.download => e.installer_ok
      /\ GuardFails(a.name, IF IsSome(e.detected) THEN e.detected ELSE a.version,
                    a.nightly, a.debug) => e.installer_ok /\ ~e.download }

\* The archives in the cache when an install starts.
InstallFiles ==
  { File(<<>>, 60 * MiB, Now - 40 * DAY),
    File(<<>>, 60 * MiB, Now + DAY),
    File(<<>>, 600 * MiB, Now - 40 * DAY) }

InstallTrees == {Relabel(t, <<>>) : t \in SeqsUpTo(InstallFiles, MaxEntries)}

InitInstall ==
  /\ rootExists = TRUE
  /\ cache \in InstallTrees
  /\ cfgFile \in CfgFiles
  /\ config = DefaultConfig
  /\ dirs = {}
  /\ op = NoOp
  /\ result = "none"
  /\ pre = Snapshot
  /\ calls = <<>>
  /\ procs = <<>>

\* One install command: the process runs install_component once.
InstallComponent(a, ext) ==
  LET out == install_component(Fs, dirs, a, ext) IN
  /\ op = NoOp
  /\ Commit(out)
  /\ dirs' = out.dirs
  /\ calls' = out.calls
  /\ op' = [name |-> "install_component", args |-> a, ext |-> ext]
  /\ UNCHANGED <<config, procs>>

NextInstall == \E a \in InstallArgs : \E ext \in ExtFor(a) : InstallComponent(a, ext)

SpecInstall == InitInstall /\ [][NextInstall]_vars

\* Position of the first call of fn among the calls, 0 when there is none.
FirstCall(fn) ==
  IF \E i \in DOMAIN calls : calls[i].fn = fn
  THEN CHOOSE i \in DOMAIN calls : calls[i].fn = fn /\ \A j \in 1..(i - 1) : calls[j].fn # fn
  ELSE 0

Installers == {"install_from_release", "install_from_nightly", "install_standalone"}

\* C8: install_component calls auto_cleanup_cache only after an external
\* installer has returned success (and after set_tool_status has, when
\* enable or disable is set); and once auto_cleanup_cache is called the
\* install returns success, whatever auto_cleanup_cache returned.
C8_CleanupAfterInstall ==
  (op.name = "install_component" /\ FirstCall("auto_cleanup_cache") # 0) =>
    LET k == FirstCall("auto_cleanup_cache") IN
    /\ \E i \in 1..(k - 1) : calls[i].fn \in Installers /\ calls[i].result = "ok"
    /\ (op.args.enable \/ op.args.disable) =>
         \E i \in 1..(k - 1) : calls[i].fn = "set_tool_status" /\ calls[i].result = "ok"
    /\ \A i \in 1..(k - 1) : calls[i].result = "ok"
    /\ result = "ok"

\* C8 witness: the installer and set_tool_status succeeded, auto_cleanup_cache
\* was called after them and failed, and the install returned success.
C8_Witness ==
  /\ op.name = "install_component"
  /\ op.args.enable
  /\ \E k \in DOMAIN calls :
       /\ calls[k].fn = "auto_cleanup_cache"
       /\ calls[k].result = "err"
  /\ result = "ok"

\* The version install_component works with: the explicit one, or the
\* detected one when auto-detection ran.
EffectiveVersion ==
  IF op.args.auto_detect /\ op.args.version = None /\ op.args.nightly = None
  THEN op.ext.detected ELSE op.args.version

\* No external installer and no auto-cleanup was called.
NothingInstalled ==
  \A i \in DOMAIN calls : calls[i].fn \notin Installers \cup {"auto_cleanup_cache", "handle_cleanup"}

\* C22: install_component fails, without calling an external installer and
\* without running auto-cleanup, when debug is set for a component other
\* than sui and nightly is absent, and when nightly and a version are both
\* present; debug together with nightly (and no version) passes the guards
\* for every component.
C22_Guards ==
  op.name = "install_component" =>
    /\ (op.args.name # "sui" /\ op.args.debug /\ op.args.nightly = None)
         => (result = "err" /\ NothingInstalled /\ cache = pre.cache)
    /\ (IsSome(op.args.nightly) /\ IsSome(EffectiveVersion))
         => (result = "err" /\ NothingInstalled /\ cache = pre.cache)
    /\ (op.args.debug /\ IsSome(op.args.nightly) /\ EffectiveVersion = None)
         => \E i \in DOMAIN calls : calls[i].fn = "install_from_nightly"

\* C22 witness: a debug install of a component other than sui, without
\* nightly, was refused after the directories were created.
C22_Witness ==
  /\ op.name = "install_component"
  /\ op.args.name = "walrus"
  /\ op.args.debug
  /\ op.args.nightly = None
  /\ result = "err"
  /\ BinariesDir \in dirs

\* The call passed both guards of install_component.
GuardsPassed ==
  /\ op.name = "install_component"
  /\ ~(op.args.name # "sui" /\ op.args.debug /\ op.args.nightly = None)
  /\ ~(IsSome(op.args.nightly) /\ IsSome(EffectiveVersion))

\* C23: a call of install_component that passes the guards calls exactly
\* one external installer: install_from_nightly with the branch whenever
\* nightly is present; otherwise install_from_release with the requested
\* network for sui and walrus, install_from_release with "mainnet" for
\* site-builder, and install_standalone for mvr.
C23_OneInstallerByNameAndNightly ==
  GuardsPassed =>
    /\ Len(SelectSeq(calls, LAMBDA c : c.fn \in Installers)) = 1
    /\ LET c == SelectSeq(calls, LAMBDA x : x.fn \in Installers)[1] IN
       IF IsSome(op.args.nightly)
       THEN c.fn = "install_from_nightly" /\ c.target = Unwrap(op.args.nightly)
       ELSE IF op.args.name \in {"sui", "walrus"}
       THEN c.fn = "install_from_release" /\ c.target = op.args.network
       ELSE IF op.args.name = "site-builder"
       THEN c.fn = "install_from_release" /\ c.target = "mainnet"
       ELSE c.fn = "install_standalone"

\* C23 witness: site-builder requested for testnet was installed from the
\* mainnet release.
C23_Witness ==
  /\ GuardsPassed
  /\ op.args.name = "site-builder"
  /\ op.args.network = "testnet"
  /\ op.args.nightly = None
  /\ result = "ok"
  /\ \E i \in DOMAIN calls : calls[i] = Call("install_from_release", "mainnet", "ok")

\* The subdirectory of binaries_dir() the dispatcher section names for a
\* component.
DocumentedSubdir(name, network) ==
  IF name \in {"sui", "walrus"} THEN network
  ELSE IF name = "site-builder" THEN "mainnet"
  ELSE "standalone"

\* C24 (as claimed): before the external installer is called,
\* install_component has created binaries_dir() and the component's
\* subdirectory under it: <network> for sui and walrus, mainnet for
\* site-builder, standalone for mvr.
C24_DirsBeforeInstaller ==
  GuardsPassed =>
    \A k \in DOMAIN calls :
      calls[k].fn \in Installers =>
        /\ \E i \in 1..(k - 1) : calls[i] = Call("create_dir_all", BinariesDir, "ok")
        /\ \E i \in 1..(k - 1) :
             calls[i] = Call("create_dir_all",
                             Join(BinariesDir,
                                  DocumentedSubdir(op.args.name, op.args.network)),
                             "ok")

\* C29: a successful install_component deletes cache files only when the
\* user's configuration has auto_cleanup = true: when the configuration
\* has auto_cleanup = false, or cannot be loaded, every file that was in
\* the cache before the install is still there.
C29_CleanupOnlyWhenConfigured ==
  ( /\ op.name = "install_component"
    /\ result = "ok"
    /\ LET l == load_config(pre.cfg) IN ~l.ok \/ ~l.config.auto_cleanup )
  => PathsOf(AllFiles(pre.cache)) \subseteq PathsOf(AllFiles(cache))

\* ========================================================= concurrent spec

\* Two processes, each with its own ConfigHandler.
Handlers == {"A", "B"}

\* The mutations a handler may perform.
Mutations ==
  { [kind |-> "set", key |-> "mirror_url", value |-> StringValue("https://mirror.example.com")],
    [kind |-> "unset", key |-> "mirror_url", value |-> StringValue("")],
    [kind |-> "set", key |-> "cache_days", value |-> NumberValue(U64(0, 7))],
    [kind |-> "set", key |-> "cache_days", value |-> NumberValue(U64(0, 0))],
    [kind |-> "set", key |-> "auto_cleanup", value |-> BooleanValue(TRUE)],
    [kind |-> "set", key |-> "install_path", value |-> StringValue("default")],
    [kind |-> "set", key |-> "github_token",
     value |-> StringValue("ghp_0123456789abcdef0123")],
    [kind |-> "unset", key |-> "github_token", value |-> StringValue("")] }

\* Both handlers have loaded the document the file holds.
InitConcurrent ==
  /\ rootExists = TRUE
  /\ cache = <<>>
  /\ config \in {DefaultConfig, CustomConfig}
  /\ cfgFile = CfgDoc(config)
  /\ dirs = {HomeLocal}
  /\ op = NoOp
  /\ result = "none"
  /\ pre = Snapshot
  /\ calls = <<>>
  /\ procs = [ h \in Handlers |->
                 [pc |-> "loaded", config |-> config, key |-> "", alone |-> TRUE] ]

\* Handler h runs set or unset up to the first system call of fs::write:
\* the value is validated and assigned in memory, the document serialised
\* and the file created.  A refused value ends the call before that.
Mutate(h, m) ==
  LET r == IF m.kind = "set" THEN set(procs[h].config, cfgFile, m.key, m.value)
           ELSE unset(procs[h].config, cfgFile, m.key)
      overlap == \E g \in Handlers \ {h} : procs[g].pc = "created"
  IN /\ procs[h].pc = "loaded"
     /\ IF r.result = "err"
        THEN /\ procs' = [procs EXCEPT ![h].pc = "failed", ![h].key = m.key]
             /\ UNCHANGED cfgFile
        ELSE /\ procs' = [ g \in Handlers |->
                            IF g = h
                            THEN [ pc |-> "created", config |-> r.config, key |-> m.key,
                                   alone |-> ~overlap ]
                            ELSE [procs[g] EXCEPT !.alone = @ /\ ~overlap] ]
             /\ cfgFile' = file_create(cfgFile)
     /\ op' = [name |-> "mutate", handler |-> h, mutation |-> m]
     /\ result' = r.result
     /\ UNCHANGED <<rootExists, cache, config, dirs, pre, calls>>

\* Handler h reaches the second system call of fs::write.
WriteAll(h) ==
  /\ procs[h].pc = "created"
  /\ cfgFile' = write_all(cfgFile, procs[h].config)
  /\ procs' = [procs EXCEPT ![h].pc = "written"]
  /\ calls' = Append(calls, Call("write_all", h, "ok"))
  /\ op' = [name |-> "write_all", handler |-> h]
  /\ result' = "ok"
  /\ UNCHANGED <<rootExists, cache, config, dirs, pre>>

NextConcurrent ==
  \/ \E h \in Handlers, m \in Mutations : Mutate(h, m)
  \/ \E h \in Handlers : WriteAll(h)

SpecConcurrent == InitConcurrent /\ [][NextConcurrent]_vars

\* Both handlers have written; the last and the first writer.
BothWritten == procs # <<>> /\ \A h \in Handlers : procs[h].pc = "written"
LastWriter == calls[2].target
FirstWriter == calls[1].target

\* The persisted document is the last writer's whole configuration, and a
\* change the first writer made to another key is not in it.
LastWriterWon ==
  /\ cfgFile = CfgDoc(procs[LastWriter].config)
  /\ procs[FirstWriter].key # procs[LastWriter].key
       => cfgFile.doc[procs[FirstWriter].key] = pre.config[procs[FirstWriter].key]

\* C26: when two handlers that loaded the same document each
\* perform one mutation, in any interleaving, the persisted document after
\* both equals the whole configuration of the handler that wrote last.
C26_LastWriterWins == BothWritten => LastWriterWon

\* The same holds for the interleavings in which neither save starts
\* between the two system calls of the other.
SequentialSavesLastWriterWins ==
  (BothWritten /\ \A h \in Handlers : procs[h].alone) => LastWriterWon

\* The first writer changed a key, the last writer another one, the saves
\* did not overlap and the first change is lost.
SequentialSavesLostUpdate ==
  /\ BothWritten
  /\ \A h \in Handlers : procs[h].alone
  /\ procs[FirstWriter].key # procs[LastWriter].key
  /\ procs[FirstWriter].config[procs[FirstWriter].key] # pre.config[procs[FirstWriter].key]
  /\ cfgFile.doc = procs[LastWriter].config
  /\ DocLen(procs[LastWriter].config) < DocLen(procs[FirstWriter].config)

\* ============================================== config spec with I/O errors

\* How the calls of save_config end: all succeed, create_dir_all fails,
\* File::create fails, or write_all fails after the file was truncated.
IoOutcomes == {"ok", "create_dir_all", "create", "write_all"}

\* save_config(config) on the file, with the outcome io of its calls.
save_config_io(file, c, io) ==
  IF io = "ok" THEN [file |-> write_all(file_create(file), c), result |-> "ok"]
  ELSE IF io = "write_all" THEN [file |-> file_create(file), result |-> "err"]
  ELSE [file |-> file, result |-> "err"]

\* ConfigHandler::set: the value is assigned to self.config, then
\* save_config(&self.config)? runs.
set_io(c, file, key, value, io) ==
  LET r == set(c, file, key, value)
      s == save_config_io(file, r.config, io)
  IN IF r.result = "err" THEN r
     ELSE [config |-> r.config, file |-> s.file, result |-> s.result]

\* ConfigHandler::unset: the default is assigned, then save_config runs.
unset_io(c, file, key, io) ==
  LET r == unset(c, file, key)
      s == save_config_io(file, r.config, io)
  IN IF r.result = "err" THEN r
     ELSE [config |-> r.config, file |-> s.file, result |-> s.result]

\* ConfigHandler::reset: unless cancelled, the defaults are assigned, then
\* save_config runs.
reset_io(c, file, yes, confirmed, io) ==
  LET r == reset(c, file, yes, confirmed)
      s == save_config_io(file, r.config, io)
  IN IF ~yes /\ ~confirmed THEN r
     ELSE [config |-> r.config, file |-> s.file, result |-> s.result]

\* The handler has loaded a config file that holds its whole configuration.
InitConfigIo ==
  /\ rootExists = TRUE
  /\ cache = <<>>
  /\ \E f \in {CfgMissing, CfgDoc(CustomConfig)} :
       /\ cfgFile = load_config(f).file
       /\ config = load_config(f).config
  /\ dirs = {HomeLocal}
  /\ op = NoOp
  /\ result = "none"
  /\ pre = Snapshot
  /\ calls = <<>>
  /\ procs = <<>>

\* A call that failed ends the command, and with it the handler.
SetIo(key, value, io) ==
  /\ result # "err"
  /\ CommitConfig(set_io(config, cfgFile, key, value, io))
  /\ op' = [name |-> "set", key |-> key, value |-> value, io |-> io]

UnsetIo(key, io) ==
  /\ result # "err"
  /\ CommitConfig(unset_io(config, cfgFile, key, io))
  /\ op' = [name |-> "unset", key |-> key, io |-> io]

ResetIo(yes, confirmed, io) ==
  /\ result # "err"
  /\ CommitConfig(reset_io(config, cfgFile, yes, confirmed, io))
  /\ op' = [name |-> "reset", yes |-> yes, confirmed |-> confirmed, io |-> io]

\* The arguments of set and of unset in this specification.
IoSetArgs ==
  { <<"mirror_url", StringValue("https://mirror.example.com")>>,
    <<"cache_days", NumberValue(U64(0, 7))>>,
    <<"cache_days", NumberValue(U64(0, 0))>>,
    <<"auto_cleanup", BooleanValue(TRUE)>>,
    <<"colour", StringValue("blue")>> }
IoUnsetKeys == {"mirror_url", "cache_days", "colour"}

NextConfigIo ==
  \/ \E a \in IoSetArgs, io \in IoOutcomes : SetIo(a[1], a[2], io)
  \/ \E key \in IoUnsetKeys, io \in IoOutcomes : UnsetIo(key, io)
  \/ \E yes \in BOOLEAN, confirmed \in BOOLEAN, io \in IoOutcomes :
       ResetIo(yes, confirmed, io)

SpecConfigIo == InitConfigIo /\ [][NextConfigIo]_vars

\* C28: after every set, unset or reset, whether it returned success or an
\* error, the in-memory configuration equals the configuration held in the
\* persisted document.
C28_MemoryEqualsPersisted ==
  op.name \in {"set", "unset", "reset"} => cfgFile = CfgDoc(config)

\* The same for the calls whose save_config did not fail.
MemoryEqualsPersistedWithoutIoError ==
  (op.name \in {"set", "unset", "reset"} /\ op.io = "ok") => cfgFile = CfgDoc(config)

====
